---- MODULE Spec2Model ----
(***************************************************************************)
(* Model of the Metal (MPS) compute backend, src/backend/mps/backend.rs.   *)
(*                                                                         *)
(* The state is the device heap (every Metal object that is alive, at its  *)
(* address), and for each calling thread the locals of the Backend method  *)
(* and of the MpsBackend method it is executing, the state of the call's   *)
(* command buffer, the host pointer taken from the result buffer, and the  *)
(* value the call returned.  The device runs asynchronously: a committed   *)
(* command buffer is executed by the DeviceComplete action.                *)
(*                                                                         *)
(* f32 values are modelled by bounded integers; a quotient of two f32 is   *)
(* kept as the pair (num, den).                                            *)
(***************************************************************************)
EXTENDS Integers, Sequences, FiniteSets, TLC

VARIABLES threads, sizes, call, loc, cb, host, ret, heap, calls

vars == <<threads, sizes, call, loc, cb, host, ret, heap, calls>>

(* ------------------------------ bounds --------------------------------- *)

\* longest host slice passed to an element-wise operation, sum or mean
MaxLen == 2
\* largest element of such a slice (elements are 1..MaxVal)
MaxVal == 2
\* largest matmul dimension (m, n, k are 0..MaxDim)
MaxDim == 2
\* number of calls one thread makes, one after the other
MaxCalls == 2
\* the same bounds when two threads call concurrently
ConcMaxLen == 1
ConcMaxDim == 1
ConcMaxCalls == 1

\* first elements of the matrices given to matmul: a matrix is the ramp
\* base, base+1, ... in row-major order
MatBases == {1, 5}
ConcMatBases == {1}

(* -------------------------- program constants -------------------------- *)

\* std::mem::size_of::<f32>() and size_of::<u32>()
F32Size == 4
\* threads per group of the element-wise operations
ElemGroup == 256
\* how the element-wise group count rounds up: (size + 255) / 256
ElemRound == 255
\* threads per group, per axis, of matmul; also what matmul adds to m and k
MatGroup == 16

\* An indeterminate f32: what a read of memory that holds no defined value
\* of the call can produce besides a stale or a zero value.
Poison == 0 - 999

Threads == {1, 2}

FacadeOps == {"add", "sub", "multiply", "div", "matmul", "log", "sum", "mean"}
TodoOps == {"exp", "pow", "sqrt"}
BinaryOps == {"add", "sub", "multiply", "div"}
UnaryOps == {"log", "sum", "mean"}

(* ------------------------------ inputs --------------------------------- *)

Concurrent == Cardinality(threads) > 1

LenBound == IF Concurrent THEN ConcMaxLen ELSE MaxLen
DimBound == IF Concurrent THEN ConcMaxDim ELSE MaxDim
CallBound == IF Concurrent THEN ConcMaxCalls ELSE MaxCalls
Bases == IF Concurrent THEN ConcMatBases ELSE MatBases

\* The slices of a length: `sizes` holds the lengths, dimensions, element
\* values and matrix bases the callers of this behaviour choose among.
Vecs(len) == [1..len -> sizes.vals]

\* Lengths and dimensions around the thread-group sizes, for the grid
\* computations; slices of these lengths hold ones.
LargeLens ==
    {0, 1, ElemGroup - 1, ElemGroup, ElemGroup + 1, 2 * ElemGroup + 1}
LargeDims == {0, 1, MatGroup, MatGroup + 1, 2 * MatGroup + 1}

Ramp(base, len) == [i \in 1..len |-> base + i - 1]

(* --------------------------- the device heap --------------------------- *)

\* The address of a new object: the lowest free address of the allocating
\* thread's region.  (Which address a later allocation reuses is not modelled
\* here; DanglingRead covers it.)
Region(t) == (t - 1) * 100

FreshAddr(h, t) ==
    CHOOSE x \in (Region(t) + 1)..(Region(t) + Cardinality(DOMAIN h) + 1) :
        /\ x \notin DOMAIN h
        /\ \A y \in (Region(t) + 1)..(x - 1) : y \in DOMAIN h

Obj(kind, owner, bytes, data) ==
    [kind |-> kind, owner |-> owner, bytes |-> bytes, data |-> data, writes |-> 0]

Put(h, addr, obj) == h @@ (addr :> obj)

Free(h, addrs) == [x \in (DOMAIN h) \ addrs |-> h[x]]

\* create_buffer: a buffer of len * size_of::<T>() bytes holding a copy of data
create_buffer(owner, data) ==
    Obj("input", owner, Len(data) * F32Size, data)

\* device().new_buffer(bytes, StorageModeShared): scratch space no pass has
\* written yet
new_buffer(owner, bytes) ==
    Obj("scratch", owner, bytes, [i \in 1..(bytes \div F32Size) |-> Poison])

\* any other Metal object: library, function, pipeline, queue, command
\* buffer, encoder
new_object(kind, owner) == Obj(kind, owner, 0, <<>>)

(* ------------------- the operations and their kernels ------------------ *)

\* The facade as it would be if div called sub.
FacadeCalleeDivSub(op) ==
    CASE op = "add" -> "add"
      [] op = "sub" -> "sub"
      [] op = "multiply" -> "multiply"
      [] op = "div" -> "sub"
      [] op = "matmul" -> "matmul"
      [] op = "log" -> "log"
      [] op = "sum" -> "sum_backend"
      [] op = "mean" -> "sum_backend"
      [] OTHER -> "none"

\* The MpsBackend method each Backend (facade) method calls.
FacadeCallee(op) ==
    CASE op = "add" -> "add"
      [] op = "sub" -> "sub"
      [] op = "multiply" -> "multiply"
      [] op = "div" -> "add"
      [] op = "matmul" -> "matmul"
      [] op = "log" -> "log"
      [] op = "sum" -> "sum_backend"
      [] op = "mean" -> "sum_backend"
      [] OTHER -> "none"

\* The lookup as it would be if multiply had kept add's entry point.
EntryPointMulAdd(method) ==
    CASE method = "add" -> "vector_add"
      [] method = "sub" -> "vector_sub"
      [] method = "multiply" -> "vector_add"
      [] method = "log" -> "vector_log"
      [] method = "sum_backend" -> "vector_sum"
      [] method = "matmul" -> "matrix_multiply"
      [] OTHER -> "none"

\* The entry point each MpsBackend method looks up with get_function.
EntryPoint(method) ==
    CASE method = "add" -> "vector_add"
      [] method = "sub" -> "vector_sub"
      [] method = "multiply" -> "vector_mul"
      [] method = "log" -> "vector_log"
      [] method = "sum_backend" -> "vector_sum"
      [] method = "matmul" -> "matrix_multiply"
      [] OTHER -> "none"

\* The facade methods that upload two operands (the others upload one).
TwoOperands(op) == op \in BinaryOps \cup {"matmul"}

\* The size argument the facade passes: a.len().
SizeArg(c) == Len(c.a)

\* matmul's only check: m == 0 || n == 0 || k == 0.
InvalidDims(c) == c.m = 0 \/ c.n = 0 \/ c.k = 0

\* The byte length of the result buffer each method allocates.
ResultBytes(method, c) ==
    IF method = "matmul" THEN c.m * c.k * F32Size ELSE SizeArg(c) * F32Size

Size3(x, y, z) == [x |-> x, y |-> y, z |-> z]

\* thread_group_size
ThreadGroupSize(method) ==
    CASE method = "matmul" -> Size3(MatGroup, MatGroup, 1)
      [] method = "sum_backend" -> Size3(1, 1, 1)
      [] OTHER -> Size3(ElemGroup, 1, 1)

\* The grid as it would be if matmul's group counts were rounded down.
GridSizeMatFloor(method, c) ==
    CASE method = "matmul" -> Size3(c.m \div MatGroup, c.k \div MatGroup, 1)
      [] method = "sum_backend" -> Size3(1, 1, 1)
      [] OTHER -> Size3((SizeArg(c) + ElemRound) \div ElemGroup, 1, 1)

\* The grid as it would be if the element-wise group count were rounded down.
GridSizeElemFloor(method, c) ==
    CASE method = "matmul" -> Size3(c.m + MatGroup, c.k + MatGroup, 1)
      [] method = "sum_backend" -> Size3(1, 1, 1)
      [] OTHER -> Size3(SizeArg(c) \div ElemGroup, 1, 1)

\* grid_size, the number of thread groups
GridSize(method, c) ==
    CASE method = "matmul" -> Size3(c.m + MatGroup, c.k + MatGroup, 1)
      [] method = "sum_backend" -> Size3(1, 1, 1)
      [] OTHER -> Size3((SizeArg(c) + ElemRound) \div ElemGroup, 1, 1)

\* The binding as it would be with matmul's n and k buffers exchanged.
SlotListSwapNK(method, l) ==
    CASE method = "matmul" ->
           <<l.buffer_a, l.buffer_b, l.result_buffer,
             l.m_buffer, l.k_buffer, l.n_buffer>>
      [] method \in {"log", "sum_backend"} -> <<l.buffer_a, l.result_buffer>>
      [] OTHER -> <<l.buffer_a, l.buffer_b, l.result_buffer>>

\* The binding as it would be with the input and the result of log and
\* sum_backend exchanged.
SlotListInPlace(method, l) ==
    CASE method = "matmul" ->
           <<l.buffer_a, l.buffer_b, l.result_buffer,
             l.m_buffer, l.n_buffer, l.k_buffer>>
      [] method \in {"log", "sum_backend"} -> <<l.result_buffer, l.buffer_a>>
      [] OTHER -> <<l.buffer_a, l.buffer_b, l.result_buffer>>

\* The buffers the method binds, slot 0 first (slot i is element i + 1).
SlotList(method, l) ==
    CASE method = "matmul" ->
           <<l.buffer_a, l.buffer_b, l.result_buffer,
             l.m_buffer, l.n_buffer, l.k_buffer>>
      [] method \in {"log", "sum_backend"} -> <<l.buffer_a, l.result_buffer>>
      [] OTHER -> <<l.buffer_a, l.buffer_b, l.result_buffer>>

\* The set_buffer calls as they would be if log and sum_backend bound their
\* result in slot 2, as the two-operand methods do.
SetBufferCallsGap(method) ==
    CASE method = "matmul" ->
           <<[slot |-> 0, buf |-> "buffer_a"], [slot |-> 1, buf |-> "buffer_b"],
             [slot |-> 2, buf |-> "result_buffer"], [slot |-> 3, buf |-> "m_buffer"],
             [slot |-> 4, buf |-> "n_buffer"], [slot |-> 5, buf |-> "k_buffer"]>>
      [] method \in {"log", "sum_backend"} ->
           <<[slot |-> 0, buf |-> "buffer_a"], [slot |-> 2, buf |-> "result_buffer"]>>
      [] OTHER ->
           <<[slot |-> 0, buf |-> "buffer_a"], [slot |-> 1, buf |-> "buffer_b"],
             [slot |-> 2, buf |-> "result_buffer"]>>

\* The set_buffer calls of each method, in the order of the code: the slot
\* index and the local bound to it.
SetBufferCalls(method) ==
    CASE method = "matmul" ->
           <<[slot |-> 0, buf |-> "buffer_a"], [slot |-> 1, buf |-> "buffer_b"],
             [slot |-> 2, buf |-> "result_buffer"], [slot |-> 3, buf |-> "m_buffer"],
             [slot |-> 4, buf |-> "n_buffer"], [slot |-> 5, buf |-> "k_buffer"]>>
      [] method \in {"log", "sum_backend"} ->
           <<[slot |-> 0, buf |-> "buffer_a"], [slot |-> 1, buf |-> "result_buffer"]>>
      [] OTHER ->
           <<[slot |-> 0, buf |-> "buffer_a"], [slot |-> 1, buf |-> "buffer_b"],
             [slot |-> 2, buf |-> "result_buffer"]>>

\* The wait as it would be if it returned for a buffer that is only committed.
WaitReturnsEarly(status) == status \in {"committed", "completed"}

\* wait_until_completed returns once the device has completed the buffer.
WaitReturns(status) == status = "completed"

\* How many f32 the facade makes its slice of the result buffer of.
ReadCount(op, c) ==
    CASE op = "matmul" -> c.m * c.k
      [] op \in {"sum", "mean"} -> 1
      [] OTHER -> Len(c.a)

(* --------------------- what each scope exit releases ------------------- *)

DimBuffers(method) ==
    IF method = "matmul" THEN {"m_buffer", "n_buffer", "k_buffer"} ELSE {}

\* The error path as it would be if the result buffer were not released.
MethodErrDropsLeak(method, stage) ==
    DimBuffers(method)
      \cup (IF stage \in {"function", "pipeline"} THEN {"library"} ELSE {})
      \cup (IF stage = "pipeline" THEN {"kernel"} ELSE {})

\* The locals of the MpsBackend method that are dropped when a `?` returns
\* the error of the given compilation stage.
MethodErrDrops(method, stage) ==
    {"result_buffer"} \cup DimBuffers(method)
      \cup (IF stage \in {"function", "pipeline"} THEN {"library"} ELSE {})
      \cup (IF stage = "pipeline" THEN {"kernel"} ELSE {})

\* The locals of the MpsBackend method dropped when it returns
\* Ok(result_buffer): the result buffer is moved out to the caller, the
\* command buffer and the encoder are autoreleased references.
MethodOkDrops(method) ==
    {"library", "kernel", "pipeline", "command_queue"} \cup DimBuffers(method)

\* What unwinding from a failed expect() in the facade closure drops, and
\* what the autorelease pool then drains.
UnwindDrops == {"buffer_a", "buffer_b", "command_buffer", "compute_encoder"}

\* What leaving the facade's autoreleasepool closure normally drops and
\* drains.
ScopeDrops ==
    {"result_buffer", "buffer_b", "buffer_a", "command_buffer", "compute_encoder"}

LocAddrs(l, names) == {l[nm] : nm \in names} \ {0}

ClearLoc(l, names) ==
    [nm \in DOMAIN l |-> IF nm \in names THEN 0 ELSE l[nm]]

(* ------------------------- the compute kernels ------------------------- *)
(* The shader sources (shaders/metal/*.metal) are included by the methods  *)
(* with include_str!; what each entry point computes is taken from the     *)
(* specification: one work item per element, reading its operands from    *)
(* the slots in the order of the kernel's parameters.                      *)

\* Element i (from 0) of a buffer's data; outside the buffer, indeterminate.
Elem(data, i) == IF (i + 1) \in DOMAIN data THEN data[i + 1] ELSE Poison

\* The data of the buffer bound at a slot (empty when nothing live is bound).
SlotData(h, slots, i) ==
    IF (i + 1) \in DOMAIN slots /\ slots[i + 1] \in DOMAIN h
    THEN h[slots[i + 1]].data
    ELSE <<>>

\* ln on the bounded element range, in thousandths; NaN otherwise.
LnMilli(x) ==
    CASE x = 1 -> 0
      [] x = 2 -> 693
      [] x = 3 -> 1099
      [] x = 4 -> 1386
      [] OTHER -> Poison

Arith(entry, x, y) ==
    IF x = Poison \/ y = Poison THEN Poison
    ELSE CASE entry = "vector_add" -> x + y
           [] entry = "vector_sub" -> x - y
           [] entry = "vector_mul" -> x * y
           [] OTHER -> Poison

\* The sum of s[lo..hi], by halves (integer addition is associative, and
\* the evaluation stays shallow on long slices).
RECURSIVE SumRange(_, _, _)
SumRange(s, lo, hi) ==
    IF lo > hi THEN 0
    ELSE IF lo = hi THEN s[lo]
    ELSE SumRange(s, lo, (lo + hi) \div 2) + SumRange(s, (lo + hi) \div 2 + 1, hi)

SumSeq(s) == SumRange(s, 1, Len(s))

RECURSIVE DotAcc(_, _, _, _, _, _, _)
DotAcc(A, B, i, j, nn, kk, l) ==
    IF l = 0 THEN 0
    ELSE LET x == Elem(A, i * nn + (l - 1))
             y == Elem(B, (l - 1) * kk + j)
             rest == DotAcc(A, B, i, j, nn, kk, l - 1)
         IN IF x = Poison \/ y = Poison \/ rest = Poison THEN Poison
            ELSE rest + x * y

\* The slot (from 0) of the kernel's output parameter.
OutSlot(entry) ==
    IF entry \in {"vector_log", "vector_sum"} THEN 1 ELSE 2

\* The contents of the output buffer after the pass: the work items the grid
\* holds write the elements of the output that they index.
KernelOut(entry, h, slots, grid, tg) ==
    LET out == SlotData(h, slots, OutSlot(entry))
        A == SlotData(h, slots, 0)
        B == SlotData(h, slots, 1)
        nx == grid.x * tg.x
        ny == grid.y * tg.y
        nz == grid.z * tg.z
    IN CASE entry \in {"vector_add", "vector_sub", "vector_mul"} ->
              [i \in DOMAIN out |->
                  IF (i - 1) < nx /\ ny > 0 /\ nz > 0
                  THEN Arith(entry, Elem(A, i - 1), Elem(B, i - 1))
                  ELSE out[i]]
         [] entry = "vector_log" ->
              [i \in DOMAIN out |->
                  IF (i - 1) < nx /\ ny > 0 /\ nz > 0
                  THEN LnMilli(Elem(A, i - 1))
                  ELSE out[i]]
         [] entry = "vector_sum" ->
              [i \in DOMAIN out |->
                  IF i = 1 /\ nx > 0 /\ ny > 0 /\ nz > 0
                  THEN SumSeq(A)
                  ELSE out[i]]
         [] entry = "matrix_multiply" ->
              LET mm == Elem(SlotData(h, slots, 3), 0)
                  nn == Elem(SlotData(h, slots, 4), 0)
                  kk == Elem(SlotData(h, slots, 5), 0)
              IN [idx \in DOMAIN out |->
                     IF mm > 0 /\ nn > 0 /\ kk > 0
                        /\ (idx - 1) \div kk < mm
                        /\ (idx - 1) \div kk < nx
                        /\ (idx - 1) % kk < ny
                        /\ nz > 0
                     THEN DotAcc(A, B, (idx - 1) \div kk, (idx - 1) % kk,
                                 nn, kk, nn)
                     ELSE out[idx]]
         [] OTHER -> out

\* The heap after the device has run the committed pass.
RunPass(h, c) ==
    LET o == IF (OutSlot(c.entry) + 1) \in DOMAIN c.slots
             THEN c.slots[OutSlot(c.entry) + 1] ELSE 0
    IN IF o \in DOMAIN h
       THEN [h EXCEPT ![o].data = KernelOut(c.entry, h, c.slots, c.grid, c.tg),
                      ![o].writes = @ + 1]
       ELSE h

(* ----------------------------- host reads ------------------------------ *)

\* result_slice.to_vec() inside the scope: count f32 starting at the
\* buffer's contents().
ReadSlice(h, addr, count) ==
    [i \in 1..count |->
        IF addr \in DOMAIN h THEN Elem(h[addr].data, i - 1) ELSE Poison]

\* What memory that holds no defined value may hold.
Indeterminate == {Poison, 0}

\* The buffers whose memory a dangling pointer may alias: the memory of a
\* released buffer can be handed to any later allocation.
Aliases(h, p) ==
    IF p.ptr \in DOMAIN h THEN {p.ptr}
    ELSE {x \in DOMAIN h : Len(h[x].data) >= 1}

\* result_slice[0] in sum, evaluated after the closure has returned and the
\* result buffer has been released: the pointer dangles.  It reads the stale
\* value or an indeterminate one (src = 0), or the memory of a live buffer
\* that took the place of the released one (src = that buffer).
DanglingRead(h, p, src) ==
    IF src = 0 THEN {p.stale} \cup Indeterminate
    ELSE {Elem(h[src].data, 0)}

(* ------------------------------- state --------------------------------- *)

NoCall ==
    [op |-> "none", a |-> <<>>, b |-> <<>>, m |-> 0, n |-> 0, k |-> 0,
     pc |-> "idle", res |-> "none", n_alloc |-> 0,
     tries |-> [library |-> 0, function |-> 0, pipeline |-> 0]]

NoLoc ==
    [buffer_a |-> 0, buffer_b |-> 0, result_buffer |-> 0,
     m_buffer |-> 0, n_buffer |-> 0, k_buffer |-> 0,
     library |-> 0, kernel |-> 0, pipeline |-> 0,
     command_queue |-> 0, command_buffer |-> 0, compute_encoder |-> 0]

NoCb ==
    [status |-> "none", steps |-> <<>>, entry |-> "none", pipeline |-> 0,
     slots |-> <<>>, grid |-> Size3(0, 0, 0), tg |-> Size3(0, 0, 0),
     n_commit |-> 0, bound |-> <<>>]

NoHost ==
    [ptr |-> 0, count |-> 0, stale |-> 0, vec |-> <<>>,
     read_live |-> FALSE, read_owner |-> 0]

NoRet == [kind |-> "none", vec |-> <<>>, num |-> 0, den |-> 1, err |-> "none"]

RetVec(v) == [NoRet EXCEPT !.kind = "vec", !.vec = v]
RetScalar(x, d) == [NoRet EXCEPT !.kind = "scalar", !.num = x, !.den = d]
RetPanic(e) == [NoRet EXCEPT !.kind = "panic", !.err = e]

\* The call a thread is making: the owner of what it allocates.
Owner(t) == [t |-> t, c |-> calls[t]]

Method(t) == FacadeCallee(call[t].op)

InitWith(ts) ==
    /\ threads = ts
    /\ sizes = [lens |-> 0..LenBound, dims |-> 0..DimBound,
                vals |-> 1..MaxVal, bases |-> Bases]
    /\ call = [t \in Threads |-> NoCall]
    /\ loc = [t \in Threads |-> NoLoc]
    /\ cb = [t \in Threads |-> NoCb]
    /\ host = [t \in Threads |-> NoHost]
    /\ ret = [t \in Threads |-> NoRet]
    /\ heap = <<>>
    /\ calls = [t \in Threads |-> 0]

\* One thread makes calls, one after the other.
Init == InitWith({1})

\* Two threads share the backend.
InitConc == InitWith(Threads)

\* One thread makes calls on slices and matrices around the group sizes.
InitLarge ==
    /\ threads = {1}
    /\ sizes = [lens |-> LargeLens, dims |-> LargeDims,
                vals |-> {1}, bases |-> {1}]
    /\ call = [t \in Threads |-> NoCall]
    /\ loc = [t \in Threads |-> NoLoc]
    /\ cb = [t \in Threads |-> NoCb]
    /\ host = [t \in Threads |-> NoHost]
    /\ ret = [t \in Threads |-> NoRet]
    /\ heap = <<>>
    /\ calls = [t \in Threads |-> 0]

At(t, pc) == t \in threads /\ call[t].pc = pc

\* Leaving one of the three compilation steps counts an attempt of it.
Tried(tr, pc) == IF pc \in DOMAIN tr THEN [tr EXCEPT ![pc] = @ + 1] ELSE tr

Goto(t, pc) ==
    call' = [call EXCEPT ![t].pc = pc, ![t].tries = Tried(@, call[t].pc)]

Step(c, name) == [c EXCEPT !.steps = Append(@, name)]

(* --------------------------- entering a call --------------------------- *)

Begin(t, c) ==
    /\ call' = [call EXCEPT ![t] = c]
    /\ UNCHANGED <<threads, sizes, loc, cb, host, ret, heap, calls>>

\* add, sub, multiply, div on two slices of equal length
CallBinary(t) ==
    /\ At(t, "idle") /\ calls[t] < CallBound
    /\ \E op \in BinaryOps, len \in sizes.lens :
         \E a \in Vecs(len), b \in Vecs(len) :
            Begin(t, [NoCall EXCEPT !.op = op, !.a = a, !.b = b,
                                    !.pc = "create_inputs"])

\* log and sum on a slice, mean on a nonempty slice
CallUnary(t) ==
    /\ At(t, "idle") /\ calls[t] < CallBound
    /\ \E op \in UnaryOps, len \in sizes.lens :
         \E a \in Vecs(len) :
            /\ op = "mean" => len > 0
            /\ Begin(t, [NoCall EXCEPT !.op = op, !.a = a,
                                       !.pc = "create_inputs"])

\* matmul on an m x n and an n x k matrix
CallMatmul(t) ==
    /\ At(t, "idle") /\ calls[t] < CallBound
    /\ \E m \in sizes.dims, n \in sizes.dims, k \in sizes.dims :
         \E ba \in sizes.bases, bb \in sizes.bases :
            Begin(t, [NoCall EXCEPT !.op = "matmul",
                                    !.a = Ramp(ba, m * n), !.b = Ramp(bb, n * k),
                                    !.m = m, !.n = n, !.k = k,
                                    !.pc = "create_inputs"])

\* mean of the empty slice: a.is_empty() returns 0.0 at once
MeanEmpty(t) ==
    /\ At(t, "idle") /\ calls[t] < CallBound
    /\ call' = [call EXCEPT ![t] = [NoCall EXCEPT !.op = "mean", !.pc = "done"]]
    /\ ret' = [ret EXCEPT ![t] = RetScalar(0, 1)]
    /\ UNCHANGED <<threads, sizes, loc, cb, host, heap, calls>>

\* exp, pow, sqrt: todo!() panics
Unimplemented(t) ==
    /\ At(t, "idle") /\ calls[t] < CallBound
    /\ \E op \in TodoOps, len \in sizes.lens :
         \E a \in Vecs(len) :
            call' = [call EXCEPT ![t] = [NoCall EXCEPT !.op = op, !.a = a,
                                                       !.pc = "done"]]
    /\ ret' = [ret EXCEPT ![t] = RetPanic("not yet implemented")]
    /\ UNCHANGED <<threads, sizes, loc, cb, host, heap, calls>>

\* self.create_buffer(a), and self.create_buffer(b) where there is a b
CreateInputs(t) ==
    /\ At(t, "create_inputs")
    /\ LET c == call[t]
           a1 == FreshAddr(heap, t)
           h1 == Put(heap, a1, create_buffer(Owner(t), c.a))
           a2 == FreshAddr(h1, t)
           h2 == Put(h1, a2, create_buffer(Owner(t), c.b))
       IN IF TwoOperands(c.op)
          THEN /\ heap' = h2
               /\ loc' = [loc EXCEPT ![t].buffer_a = a1, ![t].buffer_b = a2]
               /\ call' = [call EXCEPT ![t].pc = "enter", ![t].n_alloc = @ + 2]
          ELSE /\ heap' = h1
               /\ loc' = [loc EXCEPT ![t].buffer_a = a1]
               /\ call' = [call EXCEPT ![t].pc = "enter", ![t].n_alloc = @ + 1]
    /\ UNCHANGED <<threads, sizes, cb, host, ret, calls>>

\* The MpsBackend method returned Err(e): its locals named by `drops` are
\* dropped, the facade's expect() panics, and unwinding leaves the closure
\* and the autorelease pool.
FailWith(t, e, drops) ==
    /\ heap' = Free(heap, LocAddrs(loc[t], drops \cup UnwindDrops))
    /\ loc' = [loc EXCEPT ![t] = ClearLoc(@, drops \cup UnwindDrops)]
    /\ call' = [call EXCEPT ![t].pc = "done", ![t].res = e,
                            ![t].tries = Tried(@, call[t].pc)]
    /\ ret' = [ret EXCEPT ![t] = RetPanic(e)]
    /\ UNCHANGED <<threads, sizes, cb, host, calls>>

\* matmul with a zero dimension: Err(InvalidDimensions) before anything
InvalidDimensions(t) ==
    /\ At(t, "enter")
    /\ Method(t) = "matmul" /\ InvalidDims(call[t])
    /\ FailWith(t, "InvalidDimensions", {})

\* new_buffer for the result; matmul also uploads m, n and k
AllocResult(t) ==
    /\ At(t, "enter")
    /\ Method(t) = "matmul" => ~InvalidDims(call[t])
    /\ LET c == call[t]
           r == FreshAddr(heap, t)
           h1 == Put(heap, r, new_buffer(Owner(t), ResultBytes(Method(t), c)))
           am == FreshAddr(h1, t)
           h2 == Put(h1, am, create_buffer(Owner(t), <<c.m>>))
           an == FreshAddr(h2, t)
           h3 == Put(h2, an, create_buffer(Owner(t), <<c.n>>))
           ak == FreshAddr(h3, t)
           h4 == Put(h3, ak, create_buffer(Owner(t), <<c.k>>))
       IN IF Method(t) = "matmul"
          THEN /\ heap' = h4
               /\ loc' = [loc EXCEPT ![t].result_buffer = r, ![t].m_buffer = am,
                                     ![t].n_buffer = an, ![t].k_buffer = ak]
               /\ call' = [call EXCEPT ![t].pc = "library", ![t].n_alloc = @ + 4]
          ELSE /\ heap' = h1
               /\ loc' = [loc EXCEPT ![t].result_buffer = r]
               /\ call' = [call EXCEPT ![t].pc = "library", ![t].n_alloc = @ + 1]
    /\ UNCHANGED <<threads, sizes, cb, host, ret, calls>>

(* ------------------------ compiling the kernel ------------------------- *)

\* One more object of the call, held in local `name`.
NewLocal(t, name, kind, pc) ==
    LET x == FreshAddr(heap, t)
    IN /\ heap' = Put(heap, x, new_object(kind, Owner(t)))
       /\ loc' = [loc EXCEPT ![t][name] = x]
       /\ Goto(t, pc)

\* new_library_with_source(...).map_err(ShaderCompilationError)?
NewLibrary(t) ==
    /\ At(t, "library")
    /\ \/ /\ NewLocal(t, "library", "library", "function")
          /\ UNCHANGED <<threads, sizes, cb, host, ret, calls>>
       \/ FailWith(t, "ShaderCompilationError", MethodErrDrops(Method(t), "library"))

\* library.get_function(entry, None).map_err(ShaderCompilationError)?
GetFunction(t) ==
    /\ At(t, "function")
    /\ \/ /\ NewLocal(t, "kernel", "function", "pipeline")
          /\ cb' = [cb EXCEPT ![t].entry = EntryPoint(Method(t))]
          /\ UNCHANGED <<threads, sizes, host, ret, calls>>
       \/ FailWith(t, "ShaderCompilationError", MethodErrDrops(Method(t), "function"))

\* The method as it would be if it went on after a failed pipeline creation.
NewPipelineUnchecked(t) ==
    /\ At(t, "pipeline")
    /\ \/ /\ NewLocal(t, "pipeline", "pipeline", "queue")
          /\ UNCHANGED <<threads, sizes, cb, host, ret, calls>>
       \/ /\ Goto(t, "queue")
          /\ UNCHANGED <<threads, sizes, loc, cb, host, ret, heap, calls>>

\* new_compute_pipeline_state_with_function(&kernel).map_err(..)?
NewPipeline(t) ==
    /\ At(t, "pipeline")
    /\ \/ /\ NewLocal(t, "pipeline", "pipeline", "queue")
          /\ UNCHANGED <<threads, sizes, cb, host, ret, calls>>
       \/ FailWith(t, "ShaderCompilationError", MethodErrDrops(Method(t), "pipeline"))

(* ------------------------- encoding the pass --------------------------- *)

\* device().new_command_queue()
NewCommandQueue(t) ==
    /\ At(t, "queue")
    /\ NewLocal(t, "command_queue", "queue", "cmdbuf")
    /\ UNCHANGED <<threads, sizes, cb, host, ret, calls>>

\* command_queue.new_command_buffer()
NewCommandBuffer(t) ==
    /\ At(t, "cmdbuf")
    /\ NewLocal(t, "command_buffer", "cmdbuf", "encoder")
    /\ cb' = [cb EXCEPT ![t] = Step([@ EXCEPT !.status = "created"], "created")]
    /\ UNCHANGED <<threads, sizes, host, ret, calls>>

\* command_buffer.new_compute_command_encoder()
NewEncoder(t) ==
    /\ At(t, "encoder")
    /\ NewLocal(t, "compute_encoder", "encoder", "set_pipeline")
    /\ cb' = [cb EXCEPT ![t] = Step([@ EXCEPT !.status = "encoding"], "encoder")]
    /\ UNCHANGED <<threads, sizes, host, ret, calls>>

\* compute_encoder.set_compute_pipeline_state(&pipeline)
SetPipeline(t) ==
    /\ At(t, "set_pipeline")
    /\ cb' = [cb EXCEPT ![t] = Step([@ EXCEPT !.status = "pipeline_set",
                                              !.pipeline = loc[t].pipeline],
                                    "pipeline")]
    /\ Goto(t, "set_buffers")
    /\ UNCHANGED <<threads, sizes, loc, host, ret, heap, calls>>

\* compute_encoder.set_buffer(i, ..) for every slot
SetBuffers(t) ==
    /\ At(t, "set_buffers")
    /\ cb' = [cb EXCEPT ![t] = Step([@ EXCEPT !.status = "bound",
                                              !.slots = SlotList(Method(t), loc[t]),
                                              !.bound = SetBufferCalls(Method(t))],
                                    "buffers")]
    /\ Goto(t, "dispatch")
    /\ UNCHANGED <<threads, sizes, loc, host, ret, heap, calls>>

\* compute_encoder.dispatch_thread_groups(grid_size, thread_group_size)
Dispatch(t) ==
    /\ At(t, "dispatch")
    /\ cb' = [cb EXCEPT ![t] = Step([@ EXCEPT !.status = "dispatched",
                                              !.grid = GridSize(Method(t), call[t]),
                                              !.tg = ThreadGroupSize(Method(t))],
                                    "dispatch")]
    /\ Goto(t, "end_encoding")
    /\ UNCHANGED <<threads, sizes, loc, host, ret, heap, calls>>

\* The method as it would be if it committed without ending the encoding.
EndEncodingSkipped(t) ==
    /\ At(t, "end_encoding")
    /\ Goto(t, "commit")
    /\ UNCHANGED <<threads, sizes, loc, cb, host, ret, heap, calls>>

\* compute_encoder.end_encoding()
EndEncoding(t) ==
    /\ At(t, "end_encoding")
    /\ cb' = [cb EXCEPT ![t] = Step([@ EXCEPT !.status = "ended"], "end")]
    /\ Goto(t, "commit")
    /\ UNCHANGED <<threads, sizes, loc, host, ret, heap, calls>>

\* command_buffer.commit()
Commit(t) ==
    /\ At(t, "commit")
    /\ cb' = [cb EXCEPT ![t] = Step([@ EXCEPT !.status = "committed",
                                              !.n_commit = @ + 1], "commit")]
    /\ Goto(t, "wait")
    /\ UNCHANGED <<threads, sizes, loc, host, ret, heap, calls>>

\* The device runs the committed pass and signals completion.
DeviceComplete(t) ==
    /\ t \in threads
    /\ cb[t].status = "committed"
    /\ heap' = RunPass(heap, cb[t])
    /\ cb' = [cb EXCEPT ![t] = Step([@ EXCEPT !.status = "completed"], "completed")]
    /\ UNCHANGED <<threads, sizes, call, loc, host, ret, calls>>

\* command_buffer.wait_until_completed() returns, and the method returns
\* Ok(result_buffer), dropping its other locals.
WaitUntilCompleted(t) ==
    /\ At(t, "wait")
    /\ WaitReturns(cb[t].status)
    /\ heap' = Free(heap, LocAddrs(loc[t], MethodOkDrops(Method(t))))
    /\ loc' = [loc EXCEPT ![t] = ClearLoc(@, MethodOkDrops(Method(t)))]
    /\ call' = [call EXCEPT ![t].pc = "read", ![t].res = "Ok"]
    /\ UNCHANGED <<threads, sizes, cb, host, ret, calls>>

(* ------------------------- reading the result -------------------------- *)

\* result_buffer.contents() and slice::from_raw_parts(result, count); every
\* facade but sum copies the slice with to_vec() here, sum only keeps it.
ReadResult(t) ==
    /\ At(t, "read")
    /\ LET c == call[t]
           p == loc[t].result_buffer
           n == ReadCount(c.op, c)
       IN host' = [host EXCEPT ![t] =
                     [ptr |-> p, count |-> n,
                      stale |-> IF p \in DOMAIN heap
                                THEN Elem(heap[p].data, 0) ELSE Poison,
                      vec |-> IF c.op \in {"sum", "mean"} THEN <<>>
                              ELSE ReadSlice(heap, p, n),
                      read_live |-> c.op \notin {"sum", "mean"} /\ p \in DOMAIN heap,
                      read_owner |-> IF c.op \notin {"sum", "mean"} /\ p \in DOMAIN heap
                                     THEN heap[p].owner.t ELSE 0]]
    /\ Goto(t, "scope_exit")
    /\ UNCHANGED <<threads, sizes, loc, cb, ret, heap, calls>>

\* The closure returns: its buffers are dropped and the autorelease pool is
\* drained.  Every facade but sum returns result_vec.
ScopeExit(t) ==
    /\ At(t, "scope_exit")
    /\ heap' = Free(heap, LocAddrs(loc[t], ScopeDrops))
    /\ loc' = [loc EXCEPT ![t] = ClearLoc(@, ScopeDrops)]
    /\ IF call[t].op \in {"sum", "mean"}
       THEN /\ Goto(t, "index")
            /\ ret' = ret
       ELSE /\ Goto(t, "done")
            /\ ret' = [ret EXCEPT ![t] = RetVec(host[t].vec)]
    /\ UNCHANGED <<threads, sizes, cb, host, calls>>

\* sum returns result_slice[0]; mean divides it by a.len().  The read goes
\* through a pointer into released memory: it yields some value, or, the
\* memory being no longer mapped, it faults and the process is terminated
\* inside the call.
SumIndex(t) ==
    /\ At(t, "index")
    /\ \/ /\ \E src \in {0} \cup Aliases(heap, host[t]) :
               /\ \E x \in DanglingRead(heap, host[t], src) :
                    ret' = [ret EXCEPT ![t] =
                              IF call[t].op = "mean"
                              THEN RetScalar(x, Len(call[t].a))
                              ELSE RetScalar(x, 1)]
               /\ host' = [host EXCEPT ![t].read_live = host[t].ptr \in DOMAIN heap,
                                       ![t].read_owner =
                                          IF src = 0 THEN 0 ELSE heap[src].owner.t]
          /\ Goto(t, "done")
       \/ /\ host[t].ptr \notin DOMAIN heap
          /\ call' = [call EXCEPT ![t].pc = "fault"]
          /\ UNCHANGED <<host, ret>>
    /\ UNCHANGED <<threads, sizes, loc, cb, heap, calls>>

\* The caller has the call's outcome and goes on to its next call.
Return(t) ==
    /\ At(t, "done")
    /\ call' = [call EXCEPT ![t] = NoCall]
    /\ loc' = [loc EXCEPT ![t] = NoLoc]
    /\ cb' = [cb EXCEPT ![t] = NoCb]
    /\ host' = [host EXCEPT ![t] = NoHost]
    /\ ret' = [ret EXCEPT ![t] = NoRet]
    /\ calls' = [calls EXCEPT ![t] = @ + 1]
    /\ UNCHANGED <<threads, sizes, heap>>

Next ==
    \E t \in Threads :
       \/ CallBinary(t)
       \/ CallUnary(t)
       \/ CallMatmul(t)
       \/ MeanEmpty(t)
       \/ Unimplemented(t)
       \/ CreateInputs(t)
       \/ InvalidDimensions(t)
       \/ AllocResult(t)
       \/ NewLibrary(t)
       \/ GetFunction(t)
       \/ NewPipeline(t)
       \/ NewCommandQueue(t)
       \/ NewCommandBuffer(t)
       \/ NewEncoder(t)
       \/ SetPipeline(t)
       \/ SetBuffers(t)
       \/ Dispatch(t)
       \/ EndEncoding(t)
       \/ Commit(t)
       \/ DeviceComplete(t)
       \/ WaitUntilCompleted(t)
       \/ ReadResult(t)
       \/ ScopeExit(t)
       \/ SumIndex(t)
       \/ Return(t)

Spec == Init /\ [][Next]_vars

SpecConc == InitConc /\ [][Next]_vars

SpecLarge == InitLarge /\ [][Next]_vars

\* What the calling thread does on its own once it is in a call.
HostStep(t) ==
    \/ CreateInputs(t)
    \/ InvalidDimensions(t)
    \/ AllocResult(t)
    \/ NewLibrary(t)
    \/ GetFunction(t)
    \/ NewPipeline(t)
    \/ NewCommandQueue(t)
    \/ NewCommandBuffer(t)
    \/ NewEncoder(t)
    \/ SetPipeline(t)
    \/ SetBuffers(t)
    \/ Dispatch(t)
    \/ EndEncoding(t)
    \/ Commit(t)
    \/ WaitUntilCompleted(t)
    \/ ReadResult(t)
    \/ ScopeExit(t)
    \/ SumIndex(t)
    \/ Return(t)

\* One thread makes calls; it keeps running while it has a step to take,
\* and the device completes every command buffer committed to it.
SpecFair ==
    /\ Init /\ [][Next]_vars
    /\ \A t \in Threads : WF_vars(HostStep(t)) /\ WF_vars(DeviceComplete(t))

(* ============================== claims ================================= *)

Ended(t) == t \in threads /\ call[t].pc = "done"

Returned(t) == Ended(t) /\ ret[t].kind # "panic"

\* The value an error returned to the caller would be.
RetError(e) == [NoRet EXCEPT !.kind = "error", !.err = e]

\* C1: a matmul call with m, n or k equal to 0 fails with InvalidDimensions
\* returned to the caller, allocates no device buffer during the call and
\* commits no command buffer.
C1_ZeroDimMatmulFailsClean ==
    \A t \in threads :
       (call[t].op = "matmul" /\ InvalidDims(call[t])) =>
          /\ call[t].n_alloc = 0
          /\ cb[t].n_commit = 0
          /\ Ended(t) => ret[t] = RetError("InvalidDimensions")

\* C2: exp, pow and sqrt end in a NotImplemented error returned to the
\* caller, never in a panic.
C2_TodoOpsReturnNotImplemented ==
    \A t \in threads :
       (call[t].op \in TodoOps /\ Ended(t)) => ret[t] = RetError("NotImplemented")

\* C3: the host holds or reads the contents of a result buffer only after
\* the call's command buffer was committed (once) and completed, the method
\* returns only then, and the pass has then written the result buffer.
C3_ReadOnlyAfterCompletion ==
    \A t \in threads :
       /\ (call[t].res = "Ok" \/ host[t].ptr # 0
             \/ call[t].pc \in {"read", "scope_exit", "index"}) =>
            (cb[t].status = "completed" /\ cb[t].n_commit = 1)
       /\ call[t].pc = "read" =>
            (/\ loc[t].result_buffer \in DOMAIN heap
             /\ heap[loc[t].result_buffer].writes = 1)
       /\ (Returned(t) /\ call[t].op \in FacadeOps /\ cb[t].status # "none") =>
            cb[t].status = "completed"

C3_Witness ==
    \E t \in threads :
       /\ call[t].op = "add" /\ call[t].pc = "scope_exit"
       /\ host[t].ptr # 0 /\ host[t].vec = <<3, 3>>
       /\ cb[t].status = "completed"

\* C4: every live device object belongs to a call that has not ended yet:
\* calls that ended, by returning or by panicking, left nothing behind.
C4_NoObjectOutlivesItsCall ==
    \A x \in DOMAIN heap :
       LET o == heap[x].owner
       IN /\ o.c = calls[o.t]
          /\ call[o.t].pc \notin {"idle", "done"}

\* a second call has failed in shader compilation after a first call ended
C4_Witness ==
    \E t \in threads :
       /\ calls[t] = 1 /\ Ended(t)
       /\ call[t].res = "ShaderCompilationError" /\ call[t].n_alloc >= 2
       /\ heap = <<>>

\* C5: sum of the empty slice returns 0.0, and mean of the empty slice
\* returns 0.0.
C5_EmptySumAndMeanAreZero ==
    \A t \in threads :
       (call[t].op \in {"sum", "mean"} /\ call[t].a = <<>> /\ Returned(t)) =>
          ret[t] = RetScalar(0, 1)

\* The elementwise reference of add, sub and multiply.
RefElem(op, x, y) ==
    CASE op = "add" -> x + y
      [] op = "sub" -> x - y
      [] op = "multiply" -> x * y

RefKernel(op) ==
    CASE op = "add" -> "vector_add"
      [] op = "sub" -> "vector_sub"
      [] op = "multiply" -> "vector_mul"

\* The pass of thread t is encoded with its buffers bound and dispatched.
Dispatched(t) == t \in threads /\ cb[t].status = "dispatched"

\* The pass of thread t has a, b and a scratch buffer of n f32 in slots 0, 1, 2.
BoundABResult(t, n) ==
    /\ Len(cb[t].slots) = 3
    /\ \A i \in 1..3 : cb[t].slots[i] \in DOMAIN heap
    /\ cb[t].slots = <<loc[t].buffer_a, loc[t].buffer_b, loc[t].result_buffer>>
    /\ heap[cb[t].slots[1]].data = call[t].a
    /\ heap[cb[t].slots[2]].data = call[t].b
    /\ heap[cb[t].slots[3]].kind = "scratch"
    /\ heap[cb[t].slots[3]].bytes = n * F32Size

\* C6: add, sub and multiply on slices of equal length N dispatch their own
\* kernel with a, b and the result in slots 0, 1, 2 and return N elements,
\* element i being a[i] + b[i], a[i] - b[i], a[i] * b[i].
C6_ElementwiseResults ==
    \A t \in threads :
       call[t].op \in {"add", "sub", "multiply"} =>
          /\ Dispatched(t) =>
               (/\ cb[t].entry = RefKernel(call[t].op)
                /\ BoundABResult(t, Len(call[t].a)))
          /\ Returned(t) =>
               (/\ ret[t].kind = "vec"
                /\ Len(ret[t].vec) = Len(call[t].a)
                /\ \A i \in 1..Len(call[t].a) :
                      ret[t].vec[i] = RefElem(call[t].op, call[t].a[i], call[t].b[i]))

C6_Witness ==
    \E t \in threads :
       /\ call[t].op = "multiply" /\ Returned(t)
       /\ call[t].a = <<2, 1>> /\ call[t].b = <<2, 2>>
       /\ ret[t].vec = <<4, 2>>

RECURSIVE RefDot(_, _, _, _, _, _, _)
RefDot(A, B, i, j, n, k, l) ==
    IF l = n THEN 0
    ELSE A[i * n + l + 1] * B[l * k + j + 1] + RefDot(A, B, i, j, n, k, l + 1)

\* C8: matmul with m, n, k > 0 passes m, n, k in slots 3, 4, 5 and returns
\* m*k elements, element i*k+j being the sum over l of A[i*n+l] * B[l*k+j].
C8_MatmulResult ==
    \A t \in threads :
       (call[t].op = "matmul" /\ ~InvalidDims(call[t])) =>
          LET c == call[t]
          IN /\ Dispatched(t) =>
                  (/\ cb[t].entry = "matrix_multiply"
                   /\ Len(cb[t].slots) = 6
                   /\ \A i \in 1..6 : cb[t].slots[i] \in DOMAIN heap
                   /\ heap[cb[t].slots[1]].data = c.a
                   /\ heap[cb[t].slots[2]].data = c.b
                   /\ cb[t].slots[3] = loc[t].result_buffer
                   /\ heap[cb[t].slots[4]].data = <<c.m>>
                   /\ heap[cb[t].slots[5]].data = <<c.n>>
                   /\ heap[cb[t].slots[6]].data = <<c.k>>)
             /\ Returned(t) =>
                  (/\ ret[t].kind = "vec"
                   /\ Len(ret[t].vec) = c.m * c.k
                   /\ \A i \in 0..(c.m - 1), j \in 0..(c.k - 1) :
                         ret[t].vec[i * c.k + j + 1]
                            = RefDot(c.a, c.b, i, j, c.n, c.k, 0))

\* the example of the specification
C8_Witness ==
    \E t \in threads :
       /\ call[t].op = "matmul" /\ Returned(t)
       /\ call[t].m = 2 /\ call[t].n = 2 /\ call[t].k = 2
       /\ call[t].a = <<1, 2, 3, 4>> /\ call[t].b = <<5, 6, 7, 8>>
       /\ ret[t].vec = <<19, 22, 43, 50>>

RECURSIVE RefSum(_)
RefSum(s) == IF Len(s) = 0 THEN 0 ELSE s[Len(s)] + RefSum(SubSeq(s, 1, Len(s) - 1))

\* C9: mean of a nonempty slice makes one sum dispatch over it and returns
\* that sum divided by the length; mean of the empty slice does no device
\* work at all.
C9_MeanIsSumOverLen ==
    \A t \in threads :
       call[t].op = "mean" =>
          IF call[t].a = <<>>
          THEN /\ call[t].n_alloc = 0
               /\ cb[t] = NoCb
               /\ \A x \in DOMAIN heap : heap[x].owner # Owner(t)
          ELSE /\ cb[t].n_commit <= 1
               /\ cb[t].entry \in {"none", "vector_sum"}
               /\ Returned(t) =>
                    (/\ cb[t].n_commit = 1
                     /\ ret[t] = RetScalar(RefSum(call[t].a), Len(call[t].a)))

\* C10: with two threads calling concurrently, every object a call binds,
\* reads or holds was created by that call.
C10_CallsShareNoObject ==
    \A t \in threads :
       /\ \A i \in DOMAIN cb[t].slots :
             cb[t].slots[i] \in DOMAIN heap =>
                heap[cb[t].slots[i]].owner = Owner(t)
       /\ \A nm \in DOMAIN loc[t] :
             loc[t][nm] \in DOMAIN heap => heap[loc[t][nm]].owner = Owner(t)
       /\ host[t].read_owner \in {0, t}

\* The facade operations whose group count is computed from the length.
ElementwiseOps == {"add", "sub", "multiply", "div", "log"}

\* C11: no command buffer is committed with a grid that has a zero
\* dimension; an element-wise call on empty slices fails with
\* InvalidDimensions instead.
C11_NoZeroGridCommitted ==
    \A t \in threads :
       cb[t].n_commit > 0 =>
          (cb[t].grid.x > 0 /\ cb[t].grid.y > 0 /\ cb[t].grid.z > 0)

\* The host has read the contents of a result buffer in the call of t.
HasRead(t) ==
    /\ t \in threads
    /\ host[t].ptr # 0
    /\ call[t].op \in {"sum", "mean"} => call[t].pc = "done"

\* C12: every host read of result data happens while the result buffer is
\* still live, before the call's scope releases it.
C12_ReadsOnlyLiveBuffers ==
    \A t \in threads : HasRead(t) => host[t].read_live

\* C13: the f32 count the facade reads, times 4, is at most the byte length
\* of the result buffer it reads from, and every buffer's byte length is its
\* element count times the element size.
C13_ReadsStayInBounds ==
    /\ \A x \in DOMAIN heap :
          heap[x].kind \in {"input", "scratch"} =>
             heap[x].bytes = Len(heap[x].data) * F32Size
    /\ \A t \in threads :
          (call[t].pc = "scope_exit" /\ host[t].ptr \in DOMAIN heap) =>
             host[t].count * F32Size <= heap[host[t].ptr].bytes

\* The least q with q * d >= x.
CeilDiv(x, d) == (x + d - 1) \div d

\* C14: matmul dispatches ceil(m/16) by ceil(k/16) groups of 16 x 16
\* threads, with a z extent of 1.
C14_MatmulGroupsAreCeilings ==
    \A t \in threads :
       (call[t].op = "matmul" /\ Dispatched(t)) =>
          /\ cb[t].tg = Size3(MatGroup, MatGroup, 1)
          /\ cb[t].grid = Size3(CeilDiv(call[t].m, MatGroup),
                                CeilDiv(call[t].k, MatGroup), 1)

\* The device has completed the pass of t and the call has not yet left
\* the method, so every buffer of the pass is still allocated.
PassDone(t) == At(t, "wait") /\ cb[t].status = "completed"

\* C15: the matmul grid of (m + 16) by (k + 16) groups of 16 x 16 threads
\* never undercounts: it has at least ceil(m/16) by ceil(k/16) groups, every
\* output element (i, j) with i < m and j < k has a work item, and the
\* completed pass has written every element of the result.
C15_MatmulGridCoversOutput ==
    \A t \in threads :
       call[t].op = "matmul" =>
          /\ Dispatched(t) =>
               /\ call[t].m > 0 /\ call[t].k > 0
               /\ cb[t].tg = Size3(MatGroup, MatGroup, 1)
               /\ cb[t].grid = Size3(call[t].m + MatGroup, call[t].k + MatGroup, 1)
               /\ cb[t].grid.x >= CeilDiv(call[t].m, MatGroup)
               /\ cb[t].grid.y >= CeilDiv(call[t].k, MatGroup)
               /\ \A i \in 0..(call[t].m - 1), j \in 0..(call[t].k - 1) :
                     /\ i < cb[t].grid.x * cb[t].tg.x
                     /\ j < cb[t].grid.y * cb[t].tg.y
                     /\ 0 < cb[t].grid.z * cb[t].tg.z
          /\ PassDone(t) =>
               /\ loc[t].result_buffer \in DOMAIN heap
               /\ Len(heap[loc[t].result_buffer].data) = call[t].m * call[t].k
               /\ \A idx \in 1..(call[t].m * call[t].k) :
                     heap[loc[t].result_buffer].data[idx] # Poison

\* A matmul with more than two groups' worth of rows and more than one
\* group's worth of columns has been run by the device.
C15_Witness ==
    \E t \in threads :
       /\ call[t].op = "matmul"
       /\ PassDone(t)
       /\ call[t].m = 2 * MatGroup + 1
       /\ call[t].k = MatGroup + 1
       /\ cb[t].grid = Size3(3 * MatGroup + 1, 2 * MatGroup + 1, 1)

\* C16: an element-wise pass on N elements uses groups of 256 threads and
\* exactly ceil(N/256) groups in x, 1 in y and z, so its work items number
\* at least N and fewer than N + 256; a sum pass is one group of one thread.
C16_ElementwiseGridIsCeiling ==
    \A t \in threads :
       Dispatched(t) =>
          /\ call[t].op \in ElementwiseOps =>
               /\ cb[t].tg = Size3(ElemGroup, 1, 1)
               /\ cb[t].grid = Size3(CeilDiv(Len(call[t].a), ElemGroup), 1, 1)
               /\ cb[t].grid.x * cb[t].tg.x >= Len(call[t].a)
               /\ cb[t].grid.x * cb[t].tg.x < Len(call[t].a) + ElemGroup
          /\ call[t].op \in {"sum", "mean"} =>
               /\ cb[t].tg = Size3(1, 1, 1)
               /\ cb[t].grid = Size3(1, 1, 1)

\* An element-wise pass on one element more than a group holds has been
\* dispatched with two groups.
C16_Witness ==
    \E t \in threads :
       /\ call[t].op \in ElementwiseOps
       /\ Dispatched(t)
       /\ Len(call[t].a) = ElemGroup + 1
       /\ cb[t].grid.x = 2

\* The steps of a command buffer, in the order the methods take them.
CmdBufSteps ==
    <<"created", "encoder", "pipeline", "buffers", "dispatch", "end",
      "commit", "completed">>

IsPrefix(s, q) ==
    /\ Len(s) <= Len(q)
    /\ \A i \in 1..Len(s) : s[i] = q[i]

\* How many steps the command buffer has taken when the call is at pc; at
\* the wait it is committed (7) or completed (8).
StepsAt(pc) ==
    CASE pc = "encoder" -> {1}
      [] pc = "set_pipeline" -> {2}
      [] pc = "set_buffers" -> {3}
      [] pc = "dispatch" -> {4}
      [] pc = "end_encoding" -> {5}
      [] pc = "commit" -> {6}
      [] pc = "wait" -> {7, 8}
      [] pc \in {"read", "scope_exit", "index"} -> {8}
      [] OTHER -> {0, 8}

\* The command buffers that are committed and not yet completed.
InFlight == {t \in threads : cb[t].status = "committed"}

\* C17 as stated: every operation call creates exactly one command buffer
\* and takes it through all its steps in order.
C17_EveryCallRunsOneCommandBuffer ==
    \A t \in threads :
       /\ IsPrefix(cb[t].steps, CmdBufSteps)
       /\ Ended(t) => cb[t].steps = CmdBufSteps

\* C17, amended: a call creates at most one command buffer, and exactly one
\* when it gets as far as encoding; that buffer takes its steps strictly in
\* the order created, encoder opened, pipeline set, buffers bound, thread
\* groups dispatched, encoding ended, committed, completed, none skipped or
\* repeated, before the method returns Ok; a call that fails or returns
\* before encoding creates none; at most one command buffer is committed
\* and not completed at any time.
C17_CommandBufferLifecycle ==
    /\ Cardinality(InFlight) <= 1
    /\ \A t \in threads :
          /\ IsPrefix(cb[t].steps, CmdBufSteps)
          /\ Len(cb[t].steps) \in StepsAt(call[t].pc)
          /\ cb[t].n_commit <= 1
          /\ cb[t].n_commit = 1 <=> Len(cb[t].steps) >= 7
          /\ call[t].res = "Ok" => cb[t].steps = CmdBufSteps
          /\ (Ended(t) /\ cb[t].steps # <<>>) => call[t].res = "Ok"
          /\ (Ended(t) /\ call[t].res # "Ok") => cb[t].steps = <<>>

\* The second call of a thread has returned a result after its command
\* buffer took all its steps.
C17_Witness ==
    \E t \in threads :
       /\ Returned(t)
       /\ calls[t] = 1
       /\ cb[t].steps = CmdBufSteps
       /\ cb[t].n_commit = 1

\* How often the call of t has tried each of the three compile steps.
TriesOf(t) ==
    <<call[t].tries.library, call[t].tries.function, call[t].tries.pipeline>>

\* The objects of the given kinds that the current call of t has created
\* and not released.
OwnObjects(t, kinds) ==
    {x \in DOMAIN heap : heap[x].kind \in kinds /\ heap[x].owner = Owner(t)}

\* C18: a failure of library compilation, entry-point lookup or pipeline
\* creation makes the MpsBackend method return ShaderCompilationError with
\* none of the three steps tried twice, no command queue or command buffer
\* created and nothing committed; a command buffer exists, and is
\* committed, only after all three steps succeeded in the same call, and
\* the pipeline it dispatches with is the one that call created.
C18_DispatchNeedsCompiledPipeline ==
    \A t \in threads :
       /\ \A i \in 1..3 : TriesOf(t)[i] <= 1
       /\ (Ended(t) /\ TriesOf(t) # <<0, 0, 0>> /\ call[t].res # "Ok") =>
             call[t].res = "ShaderCompilationError"
       /\ call[t].res = "ShaderCompilationError" =>
             /\ TriesOf(t) \in {<<1, 0, 0>>, <<1, 1, 0>>, <<1, 1, 1>>}
             /\ cb[t].steps = <<>> /\ cb[t].n_commit = 0
             /\ loc[t].command_queue = 0 /\ loc[t].command_buffer = 0
             /\ OwnObjects(t, {"queue", "cmdbuf", "encoder"}) = {}
       /\ (cb[t].steps # <<>> \/ cb[t].n_commit > 0
             \/ OwnObjects(t, {"queue", "cmdbuf", "encoder"}) # {}) =>
             TriesOf(t) = <<1, 1, 1>>
       /\ (Dispatched(t) \/ cb[t].status \in {"ended", "committed"}) =>
             /\ cb[t].pipeline \in OwnObjects(t, {"pipeline"})
             /\ cb[t].pipeline = loc[t].pipeline

\* A call has ended with ShaderCompilationError from the last of the three
\* steps, after it had allocated buffers.
C18_Witness ==
    \E t \in threads :
       /\ Ended(t)
       /\ call[t].res = "ShaderCompilationError"
       /\ TriesOf(t) = <<1, 1, 1>>
       /\ call[t].n_alloc > 0
       /\ cb[t].n_commit = 0

\* The command buffer of t has its buffers bound and the method has not
\* returned yet.
Encoded(t) ==
    /\ t \in threads
    /\ cb[t].status \in {"bound", "dispatched", "ended", "committed"}
         \/ PassDone(t)

\* The buffer bound in the slot the kernel of t writes.
OutputOf(t) == cb[t].slots[OutSlot(cb[t].entry) + 1]

\* C19: every buffer is written by at most one compute pass during its
\* lifetime: a buffer made from host data is never written and never bound
\* in the result slot, and the buffer in the result slot is the scratch
\* buffer the same call allocated, bound in no other slot, written once
\* when that call's pass completes and not before.
C19_SingleWriter ==
    /\ \A x \in DOMAIN heap :
          /\ heap[x].writes <= 1
          /\ heap[x].kind # "scratch" => heap[x].writes = 0
    /\ \A t \in threads :
          Encoded(t) =>
             /\ OutputOf(t) = loc[t].result_buffer
             /\ OutputOf(t) \in OwnObjects(t, {"scratch"})
             /\ \A i \in DOMAIN cb[t].slots :
                   i # OutSlot(cb[t].entry) + 1 =>
                      /\ cb[t].slots[i] # OutputOf(t)
                      /\ cb[t].slots[i] \in DOMAIN heap
                      /\ heap[cb[t].slots[i]].kind = "input"
             /\ heap[OutputOf(t)].writes = (IF PassDone(t) THEN 1 ELSE 0)

\* The pass of a second matmul call has completed and written its result
\* buffer once, with the operand and dimension buffers unwritten.
C19_Witness ==
    \E t \in threads :
       /\ call[t].op = "matmul"
       /\ calls[t] = 1
       /\ PassDone(t)
       /\ Len(cb[t].slots) = 6
       /\ heap[loc[t].result_buffer].writes = 1
       /\ \A i \in {1, 2, 4, 5, 6} : heap[cb[t].slots[i]].writes = 0

\* The parameters of each operation's kernel in slot order: the inputs,
\* then the result, then for matmul the dimensions m, n, k.
ParamOrder(op) ==
    CASE op = "matmul" ->
           <<"buffer_a", "buffer_b", "result_buffer",
             "m_buffer", "n_buffer", "k_buffer">>
      [] op \in {"log", "sum", "mean"} -> <<"buffer_a", "result_buffer">>
      [] OTHER -> <<"buffer_a", "buffer_b", "result_buffer">>

\* The slot indices the encoder of t has bound.
BoundSlots(t) == {cb[t].bound[i].slot : i \in DOMAIN cb[t].bound}

\* C20: when an operation dispatches, the slots it has bound are exactly
\* 0..p-1, none twice, holding the inputs, then the result, then for matmul
\* the m, n, k buffers, with p = 3 for add, sub, multiply (and div), 2 for
\* log and sum, 6 for matmul; each slot holds the live buffer of that name,
\* the inputs with the caller's data.
C20_SlotsContiguousInOrder ==
    \A t \in threads :
       Dispatched(t) =>
          LET b == cb[t].bound
              p == Len(ParamOrder(call[t].op))
          IN /\ Len(b) = p
             /\ BoundSlots(t) = 0..(p - 1)
             /\ \A i \in DOMAIN b, j \in DOMAIN b :
                   b[i].slot = b[j].slot => i = j
             /\ \A i \in DOMAIN b : b[i].buf = ParamOrder(call[t].op)[b[i].slot + 1]
             /\ Len(cb[t].slots) = p
             /\ \A i \in DOMAIN b :
                   /\ cb[t].slots[b[i].slot + 1] = loc[t][b[i].buf]
                   /\ loc[t][b[i].buf] \in DOMAIN heap
             /\ heap[cb[t].slots[1]].data = call[t].a
             /\ p # 2 => heap[cb[t].slots[2]].data = call[t].b
             /\ p = 6 => /\ heap[cb[t].slots[4]].data = <<call[t].m>>
                         /\ heap[cb[t].slots[5]].data = <<call[t].n>>
                         /\ heap[cb[t].slots[6]].data = <<call[t].k>>

\* A log pass on a nonempty slice has been dispatched with its two slots
\* bound.
C20_Witness ==
    \E t \in threads :
       /\ call[t].op = "log"
       /\ Dispatched(t)
       /\ call[t].a # <<>>
       /\ BoundSlots(t) = {0, 1}
       /\ cb[t].slots = <<loc[t].buffer_a, loc[t].result_buffer>>

\* C21: a call whose command buffer is committed and not completed stays
\* in its wait with no outcome, result or error, for as long as the device
\* does not complete it; and when the device completes every committed
\* command buffer, every such call eventually returns its result.
C21_WaitsThenReturns ==
    /\ [](\A t \in threads :
             cb[t].status = "committed" =>
                (call[t].pc = "wait" /\ call[t].res = "none" /\ ret[t] = NoRet))
    /\ \A t \in Threads :
          (t \in threads /\ cb[t].status = "committed")
             ~> (Returned(t) /\ call[t].res = "Ok")

====
